---- MODULE Spec2Model ----
(***************************************************************************)
(* Model of the MVTec AD data module of anomalib                           *)
(* (src/anomalib/data/mvtec.py): the manifest builder make_mvtec_dataset,  *)
(* MVTec.prepare_data (download, hash check, extract, unlink) and          *)
(* MVTec.setup.                                                            *)
(*                                                                         *)
(* Strings are TLA+ strings; a path is either a string or, where the code  *)
(* uses Path.parts, the sequence of its components.  The file system below *)
(* the dataset path is the sequence of files in the order the recursive    *)
(* scan yields them.                                                       *)
(***************************************************************************)
EXTENDS Integers, Sequences, FiniteSets, TLC

(***************************************************************************)
(* Bounds of the model.                                                    *)
(***************************************************************************)
MaxTrainGood == 5
MaxTestGood == 1
MaxTestCrack == 2
MaxTestCut == 1
RngMod == 2

(***************************************************************************)
(* Inputs.  A seed is a natural number; NoSeed stands for Python's None.   *)
(***************************************************************************)
NoSeed == -1
Seeds == {NoSeed, 0}
DefaultSplitRatio == [num |-> 1, den |-> 10]
SplitRatios == {DefaultSplitRatio, [num |-> 4, den |-> 10]}
Stages == {"fit", "test"}
\* Constructor arguments (seed, create_validation_set) of the data module:
\* the defaults, and a seeded module with a validation set.
Configs == {<<NoSeed, FALSE>>, <<0, TRUE>>}

RootParts == <<"mvtec">>
Category == "bottle"
DatasetPathParts == RootParts \o <<Category>>

(***************************************************************************)
(* String helpers.                                                         *)
(***************************************************************************)
EndsWith(s, suffix) ==
    /\ Len(s) >= Len(suffix)
    /\ SubSeq(s, Len(s) - Len(suffix) + 1, Len(s)) = suffix

StartsWith(s, prefix) ==
    /\ Len(s) >= Len(prefix)
    /\ SubSeq(s, 1, Len(prefix)) = prefix

RECURSIVE RStrip(_, _)
\* str.rstrip(chars): drops every trailing character that is in chars.
RStrip(s, chars) ==
    IF Len(s) > 0 /\ SubSeq(s, Len(s), Len(s)) \in chars
    THEN RStrip(SubSeq(s, 1, Len(s) - 1), chars)
    ELSE s

RECURSIVE PathStr(_)
\* str(Path): the components joined by "/".
PathStr(parts) ==
    IF Len(parts) = 1 THEN parts[1]
    ELSE parts[1] \o "/" \o PathStr(Tail(parts))

\* filename.parts[-3:]
PartsLast3(parts) ==
    SubSeq(parts, IF Len(parts) > 3 THEN Len(parts) - 2 ELSE 1, Len(parts))

(***************************************************************************)
(* Directory trees following the MVTec convention                          *)
(*   <path>/train/<label>/<name>.png                                       *)
(*   <path>/test/<label>/<name>.png                                        *)
(*   <path>/ground_truth/<label>/<name>_mask.png                           *)
(* plus one file that is not an image.                                     *)
(***************************************************************************)
Stem == <<"001", "002", "003", "004", "005", "006", "007", "008", "009">>

FilesIn(split, label, n, suffix) ==
    [i \in 1..n |-> DatasetPathParts \o <<split, label, Stem[i] \o suffix>>]

TreeShapes ==
    [trainGood : 0..MaxTrainGood, testGood : 0..MaxTestGood,
     testCrack : 0..MaxTestCrack, testCut : 0..MaxTestCut]

TreeOf(c) ==
    <<DatasetPathParts \o <<"license.txt">>>>
    \o FilesIn("train", "good", c.trainGood, ".png")
    \o FilesIn("test", "good", c.testGood, ".png")
    \o FilesIn("test", "crack", c.testCrack, ".png")
    \o FilesIn("test", "cut", c.testCut, ".png")
    \o FilesIn("ground_truth", "crack", c.testCrack, "_mask.png")
    \o FilesIn("ground_truth", "cut", c.testCut, "_mask.png")

Trees == {TreeOf(c) : c \in TreeShapes}

(***************************************************************************)
(* State.                                                                  *)
(***************************************************************************)
VARIABLES
    dirExists,   \* (self.root / self.category).is_dir()
    tree,        \* the files below the dataset path, in scan order
    zip,         \* the archive file at zip_filename: "none", "ok", "corrupt"
    pd_pc,       \* position of prepare_data
    steps,       \* the I/O steps the current prepare_data call has performed
    rng,         \* state of the global random module
    self_seed,   \* MVTec.seed
    self_cv,     \* MVTec.create_validation_set
    data,        \* MVTec.train_data, val_data, test_data
    ret,         \* outcome of the last make_mvtec_dataset call
    rerun        \* how that outcome compares with the call before it, when
                 \* both had the same arguments and scanned the same files

vars == <<dirExists, tree, zip, pd_pc, steps, rng,
          self_seed, self_cv, data, ret, rerun>>


(***************************************************************************)
(* The global random module.  Its state is a number below RngMod; seeding  *)
(* is a function of the seed, and every draw advances the state.           *)
(***************************************************************************)
SeedState(seed) == seed % RngMod

Advance(state) == (state + 1) % RngMod

RemoveAt(seq, i) == SubSeq(seq, 1, i - 1) \o SubSeq(seq, i + 1, Len(seq))

RECURSIVE RandomSample(_, _, _)
\* random.sample(population, k): k distinct elements, chosen by the state.
RandomSample(state, population, k) ==
    IF k = 0 THEN [chosen |-> {}, state |-> state]
    ELSE LET i == (state % Len(population)) + 1
             rest == RandomSample(Advance(state), RemoveAt(population, i), k - 1)
         IN  [chosen |-> {population[i]} \cup rest.chosen, state |-> rest.state]

(***************************************************************************)
(* Helpers on manifests (data frames): a manifest is a sequence of rows,   *)
(* each row a record; idx is the row's pandas index label.                 *)
(***************************************************************************)
\* samples.index.to_list()
IndexList(samples) == [i \in 1..Len(samples) |-> samples[i].idx]

IsTestGood(row) == row.split = "test" /\ row.label = "good"

IsTrainGood(row) == row.split = "train" /\ row.label = "good"

IsTestAnomalous(row) == row.split = "test" /\ row.label # "good"

SetSplit(samples, indices, split) ==
    [i \in 1..Len(samples) |->
        LET row == samples[i]
        IN  IF row.idx \in indices THEN [row EXCEPT !.split = split] ELSE row]

(***************************************************************************)
(* anomalib.data.utils.split: the two helpers make_mvtec_dataset calls.    *)
(***************************************************************************)
\* int(num_normal_train_images * split_ratio)
NumToSplit(n, split_ratio) == (n * split_ratio.num) \div split_ratio.den

split_normal_images_in_train_set(samples, split_ratio, seed, state) ==
    LET st == IF seed # NoSeed THEN SeedState(seed) ELSE state
        population == IndexList(SelectSeq(samples, IsTrainGood))
        drawn == RandomSample(st, population, NumToSplit(Len(population), split_ratio))
    IN  [samples |-> SetSplit(samples, drawn.chosen, "test"), state |-> drawn.state]

create_validation_set_from_test_set(samples, seed, state) ==
    LET st == IF seed # NoSeed THEN SeedState(seed) ELSE state
        normal == IndexList(SelectSeq(samples, IsTestGood))
        drawnNormal == RandomSample(st, normal, Len(normal) \div 2)
        abnormal == IndexList(SelectSeq(samples, IsTestAnomalous))
        drawnAbnormal == RandomSample(drawnNormal.state, abnormal, Len(abnormal) \div 2)
    IN  [samples |-> SetSplit(samples, drawnNormal.chosen \cup drawnAbnormal.chosen, "val"),
         state |-> drawnAbnormal.state]

(***************************************************************************)
(* make_mvtec_dataset, step by step.                                       *)
(***************************************************************************)
\* path.glob("**/*.png")
Glob(files) == SelectSeq(files, LAMBDA f : EndsWith(f[Len(f)], ".png"))

\* [(str(path),) + filename.parts[-3:] for filename in path.glob("**/*.png")]
SamplesList(files) ==
    LET found == Glob(files)
    IN  [i \in 1..Len(found) |-> <<PathStr(DatasetPathParts)>> \o PartsLast3(found[i])]

\* Variant: the emptiness test never fires.
EmptyScan_Never(samples_list) == Len(samples_list) < 0

EmptyScan(samples_list) == Len(samples_list) = 0

\* pd.DataFrame(samples_list, columns=...); the index labels are 0, 1, ...
DataFrame(samples_list) ==
    [i \in 1..Len(samples_list) |->
        LET sample == samples_list[i]
        IN  [idx |-> i - 1, path |-> sample[1], split |-> sample[2],
             label |-> sample[3], image_path |-> sample[4]]]

\* Variant: the ground_truth rows are not filtered out.
DropGroundTruth_KeepsAll(samples) == SelectSeq(samples, LAMBDA row : row.split # "")

\* samples[samples.split != "ground_truth"]
DropGroundTruth(samples) == SelectSeq(samples, LAMBDA row : row.split # "ground_truth")

MaskPathOf(row) ==
    row.path \o "/ground_truth/" \o row.label \o "/"
    \o RStrip(RStrip(row.image_path, {"p", "n", "g"}), {"."}) \o "_mask.png"

WithMaskPath(samples) ==
    [i \in 1..Len(samples) |->
        LET row == samples[i]
        IN  [idx |-> row.idx, path |-> row.path, split |-> row.split,
             label |-> row.label, image_path |-> row.image_path,
             mask_path |-> MaskPathOf(row)]]

ImagePathOf(row) ==
    row.path \o "/" \o row.split \o "/" \o row.label \o "/" \o row.image_path

WithImagePath(samples) ==
    [i \in 1..Len(samples) |->
        LET row == samples[i]
        IN  [row EXCEPT !.image_path = ImagePathOf(row)]]

\* Variant: the test counts good rows of every split.
NeedsSplit_AnySplit(samples) == Len(SelectSeq(samples, LAMBDA row : row.label = "good")) = 0

\* sum((samples.split == "test") & (samples.label == "good")) == 0
NeedsSplit(samples) == Len(SelectSeq(samples, IsTestGood)) = 0

\* Variant: the seed is not handed on to the split.
RebalanceStep_Unseeded(samples, split_ratio, seed, state) ==
    IF NeedsSplit(samples)
    THEN split_normal_images_in_train_set(samples, split_ratio, NoSeed, state)
    ELSE [samples |-> samples, state |-> state]

\* Variant: image_path is rebuilt from the row's split after rebalancing.
RebalanceStep_RebuildsPath(samples, split_ratio, seed, state) ==
    IF NeedsSplit(samples)
    THEN LET moved == split_normal_images_in_train_set(samples, split_ratio, seed, state)
         IN  [samples |->
                [i \in 1..Len(samples) |->
                    LET old == samples[i]
                        row == moved.samples[i]
                        rest == SubSeq(old.image_path,
                                       Len(old.path \o "/" \o old.split) + 1,
                                       Len(old.image_path))
                    IN  [row EXCEPT !.image_path = row.path \o "/" \o row.split \o rest]],
              state |-> moved.state]
    ELSE [samples |-> samples, state |-> state]

RebalanceStep(samples, split_ratio, seed, state) ==
    IF NeedsSplit(samples)
    THEN split_normal_images_in_train_set(samples, split_ratio, seed, state)
    ELSE [samples |-> samples, state |-> state]

\* Variant: the masks are cleared by the directory the image was found in.
ClearGoodTestMasks_ByDirectory(samples) ==
    [i \in 1..Len(samples) |->
        LET row == samples[i]
        IN  IF StartsWith(row.image_path, row.path \o "/test/good/")
            THEN [row EXCEPT !.mask_path = ""]
            ELSE row]

\* Variant: the masks of all test rows are cleared.
ClearGoodTestMasks_AllTest(samples) ==
    [i \in 1..Len(samples) |->
        LET row == samples[i]
        IN  IF row.split = "test" THEN [row EXCEPT !.mask_path = ""] ELSE row]

\* samples.loc[(samples.split == "test") & (samples.label == "good"), "mask_path"] = ""
ClearGoodTestMasks(samples) ==
    [i \in 1..Len(samples) |->
        LET row == samples[i]
        IN  IF IsTestGood(row) THEN [row EXCEPT !.mask_path = ""] ELSE row]

\* Variant: the index follows the split instead of the label.
LabelIndexOf_BySplit(row) == IF row.split = "train" THEN 0 ELSE 1

LabelIndexOf(row) == IF row.label = "good" THEN 0 ELSE 1

WithLabelIndex(samples) ==
    [i \in 1..Len(samples) |->
        LET row == samples[i]
        IN  [idx |-> row.idx, path |-> row.path, split |-> row.split,
             label |-> row.label, image_path |-> row.image_path,
             mask_path |-> row.mask_path, label_index |-> LabelIndexOf(row)]]

ValidationStep(samples, create_validation_set, seed, state) ==
    IF create_validation_set
    THEN create_validation_set_from_test_set(samples, seed, state)
    ELSE [samples |-> samples, state |-> state]

\* The outcome of one call: what it raised or returned, whether it warned,
\* and the state it leaves the random module in.
make_mvtec_dataset(files, split_ratio, seed, create_validation_set, state) ==
    LET samples_list == SamplesList(files)
        args == [split_ratio |-> split_ratio, seed |-> seed,
                 create_validation_set |-> create_validation_set]
    IN  IF EmptyScan(samples_list)
        THEN [status |-> "RuntimeError", args |-> args, files |-> files,
              warned |-> (seed = NoSeed), manifest |-> <<>>, state |-> state]
        ELSE LET scanned == WithImagePath(WithMaskPath(DropGroundTruth(DataFrame(samples_list))))
                 balanced == RebalanceStep(scanned, split_ratio, seed, state)
                 indexed == WithLabelIndex(ClearGoodTestMasks(balanced.samples))
                 final == ValidationStep(indexed, create_validation_set, seed, balanced.state)
             IN  [status |-> "returned", args |-> args, files |-> files,
                  warned |-> (seed = NoSeed), manifest |-> final.samples,
                  state |-> final.state]

(***************************************************************************)
(* anomalib.data.utils.hash_check: passes only for the pinned archive.     *)
(***************************************************************************)
hash_check(archive) == archive = "ok"

\* The pinned archive holds one known tree; a corrupt one holds anything.
ArchiveTree ==
    TreeOf([trainGood |-> MaxTrainGood, testGood |-> MaxTestGood,
            testCrack |-> MaxTestCrack, testCut |-> MaxTestCut])

ArchiveContent(archive) ==
    IF archive = "ok" THEN ArchiveTree ELSE <<DatasetPathParts \o <<"license.txt">>>>

(***************************************************************************)
(* Initial state: the data module has been constructed, the dataset        *)
(* directory may or may not be on disk.                                    *)
(***************************************************************************)
NoCall ==
    [status |-> "none",
     args |-> [split_ratio |-> DefaultSplitRatio, seed |-> NoSeed,
               create_validation_set |-> FALSE],
     files |-> <<>>, warned |-> FALSE, manifest |-> <<>>]

NoData == [assigned |-> {}, train |-> <<>>, val |-> <<>>, test |-> <<>>]

IdleStates == {"idle", "done", "failed"}

Init ==
    /\ dirExists \in BOOLEAN
    /\ tree \in (IF dirExists THEN Trees ELSE {<<>>})
    /\ zip = "none"
    /\ pd_pc = "idle"
    /\ steps = <<>>
    /\ rng \in 0..(RngMod - 1)
    /\ \E c \in Configs : self_seed = c[1] /\ self_cv = c[2]
    /\ data = NoData
    /\ ret = NoCall
    /\ rerun = "first"

(***************************************************************************)
(* MVTec.prepare_data.                                                     *)
(***************************************************************************)
\* if (self.root / self.category).is_dir(): logger.info("Found the dataset.")
PrepareDataFound ==
    /\ pd_pc \in IdleStates
    /\ dirExists
    /\ pd_pc' = "done"
    /\ steps' = <<>>
    /\ UNCHANGED <<dirExists, tree, zip, rng, self_seed, self_cv, data, ret, rerun>>

\* urlretrieve(...) stores the archive at zip_filename.
Download ==
    /\ pd_pc \in IdleStates
    /\ ~dirExists
    /\ zip' \in {"ok", "corrupt"}
    /\ pd_pc' = "downloaded"
    /\ steps' = <<"download">>
    /\ UNCHANGED <<dirExists, tree, rng, self_seed, self_cv, data, ret, rerun>>

\* urlretrieve(...) raises: the call ends with no archive verified.
DownloadFails ==
    /\ pd_pc \in IdleStates
    /\ ~dirExists
    /\ pd_pc' = "failed"
    /\ steps' = <<>>
    /\ UNCHANGED <<dirExists, tree, zip, rng, self_seed, self_cv, data, ret, rerun>>

\* hash_check(zip_filename, "eefca59f2cede9c3fc5b6befbfec275e")
HashCheck ==
    /\ pd_pc = "downloaded"
    /\ pd_pc' = IF hash_check(zip) THEN "checked" ELSE "failed"
    /\ steps' = Append(steps, "hash_check")
    /\ UNCHANGED <<dirExists, tree, zip, rng, self_seed, self_cv, data, ret, rerun>>

\* Variant: the archive is extracted before its hash is checked.
Extract_BeforeCheck ==
    /\ pd_pc = "downloaded"
    /\ dirExists' = TRUE
    /\ tree' = ArchiveContent(zip)
    /\ pd_pc' = "extracted"
    /\ steps' = Append(steps, "extract")
    /\ UNCHANGED <<zip, rng, self_seed, self_cv, data, ret, rerun>>

\* tar_file.extractall(self.root)
Extract ==
    /\ pd_pc = "checked"
    /\ dirExists' = TRUE
    /\ tree' = ArchiveContent(zip)
    /\ pd_pc' = "extracted"
    /\ steps' = Append(steps, "extract")
    /\ UNCHANGED <<zip, rng, self_seed, self_cv, data, ret, rerun>>

\* zip_filename.unlink()
Unlink ==
    /\ pd_pc = "extracted"
    /\ zip' = "none"
    /\ pd_pc' = "done"
    /\ steps' = Append(steps, "unlink")
    /\ UNCHANGED <<dirExists, tree, rng, self_seed, self_cv, data, ret, rerun>>

(***************************************************************************)
(* Calls of make_mvtec_dataset: directly, and from MVTec.setup.            *)
(***************************************************************************)
Outcome(r) ==
    [status |-> r.status, args |-> r.args, files |-> r.files,
     warned |-> r.warned, manifest |-> r.manifest]

\* History: the new outcome against the previous one.
Compare(old, new) ==
    IF old.status = "none" \/ old.args # new.args \/ old.files # new.files THEN "first"
    ELSE IF old = new THEN "same"
    ELSE "differs"

MakeMvtecDataset(split_ratio, seed, create_validation_set) ==
    /\ pd_pc \in IdleStates
    /\ LET r == make_mvtec_dataset(tree, split_ratio, seed, create_validation_set, rng)
       IN  /\ ret' = Outcome(r)
           /\ rerun' = Compare(ret, Outcome(r))
           /\ rng' = r.state
    /\ UNCHANGED <<dirExists, tree, zip, pd_pc, steps, self_seed, self_cv, data>>

\* samples[samples.split == split].reset_index(drop=True)
SplitSamples(samples, split) ==
    LET sel == SelectSeq(samples, LAMBDA row : row.split = split)
    IN  [i \in 1..Len(sel) |-> [sel[i] EXCEPT !.idx = i - 1]]

Setup(stage) ==
    /\ pd_pc \in IdleStates
    /\ LET r == make_mvtec_dataset(tree, DefaultSplitRatio, self_seed, self_cv, rng)
           withTrain == stage \in {"None", "fit"}
       IN  /\ ret' = Outcome(r)
           /\ rerun' = Compare(ret, Outcome(r))
           /\ rng' = r.state
           /\ data' =
                IF r.status = "RuntimeError" THEN data
                ELSE [assigned |-> data.assigned \cup {"test"}
                                    \cup (IF withTrain THEN {"train"} ELSE {})
                                    \cup (IF self_cv THEN {"val"} ELSE {}),
                      train |-> IF withTrain THEN SplitSamples(r.manifest, "train")
                                ELSE data.train,
                      val |-> IF self_cv THEN SplitSamples(r.manifest, "val") ELSE data.val,
                      test |-> SplitSamples(r.manifest, "test")]
    /\ UNCHANGED <<dirExists, tree, zip, pd_pc, steps, self_seed, self_cv>>

(***************************************************************************)
(* Spec: the life of the data module, prepare_data and setup.              *)
(* SpecCall: calls of the function make_mvtec_dataset with any arguments.  *)
(***************************************************************************)
Next ==
    \/ PrepareDataFound
    \/ Download
    \/ DownloadFails
    \/ HashCheck
    \/ Extract
    \/ Unlink
    \/ \E stage \in Stages : Setup(stage)

Spec == Init /\ [][Next]_vars

NextCall ==
    \E split_ratio \in SplitRatios, seed \in Seeds, create_validation_set \in BOOLEAN :
        MakeMvtecDataset(split_ratio, seed, create_validation_set)

SpecCall == Init /\ [][NextCall]_vars

TypeOK ==
    /\ dirExists \in BOOLEAN
    /\ pd_pc \in IdleStates \cup {"downloaded", "checked", "extracted"}
    /\ zip \in {"none", "ok", "corrupt"}
    /\ rng \in 0..(RngMod - 1)
    /\ ret.status \in {"none", "RuntimeError", "returned"}
    /\ rerun \in {"first", "same", "differs"}

(***************************************************************************)
(* Vocabulary of the properties.                                           *)
(***************************************************************************)
Returned == ret.status = "returned"

Manifest == ret.manifest

Rows == DOMAIN ret.manifest

PathPrefix == PathStr(DatasetPathParts)

\* The .png files of the scanned tree, and where the convention puts them.
IsImageFile(f) == EndsWith(f[Len(f)], ".png")

DiskSplit(f) == f[Len(f) - 2]

DiskLabel(f) == f[Len(f) - 1]

ImageFiles == SelectSeq(ret.files, IsImageFile)

SampleFiles == SelectSeq(ImageFiles, LAMBDA f : DiskSplit(f) # "ground_truth")

OnDisk(split, label) ==
    Len(SelectSeq(ImageFiles, LAMBDA f : DiskSplit(f) = split /\ DiskLabel(f) = label))

InManifest(split, label) ==
    Cardinality({i \in Rows : Manifest[i].split = split /\ Manifest[i].label = label})

\* A train good row that rebalancing reassigned to the test split.
MovedRow(row) ==
    /\ row.split = "test"
    /\ row.label = "good"
    /\ StartsWith(row.image_path, PathPrefix \o "/train/good/")

SomeRowMoved == Returned /\ \E i \in Rows : MovedRow(Manifest[i])

(***************************************************************************)
(* C2: with create_validation_set false, the returned manifest has exactly *)
(* one row for every .png file of the tree whose derived split is not      *)
(* "ground_truth", and no row for a ground_truth file; nothing is dropped  *)
(* or duplicated, whether or not rebalancing ran.                          *)
(***************************************************************************)
C2_OneRowPerSampleFile ==
    (Returned /\ ~ret.args.create_validation_set) =>
        /\ Len(Manifest) = Len(SampleFiles)
        /\ \A k \in DOMAIN SampleFiles :
              Cardinality({i \in Rows : Manifest[i].image_path = PathStr(SampleFiles[k])}) = 1
        /\ \A i \in Rows :
              /\ Manifest[i].split # "ground_truth"
              /\ ~StartsWith(Manifest[i].image_path, PathPrefix \o "/ground_truth/")

C2_Witness ==
    /\ SomeRowMoved
    /\ ~ret.args.create_validation_set
    /\ Len(ImageFiles) > Len(SampleFiles)
    /\ Len(SampleFiles) >= 4

(***************************************************************************)
(* C5: when the tree holds no .png file, make_mvtec_dataset raises the     *)
(* not-found error and returns no manifest, whatever the arguments; with   *)
(* no seed the warning has been issued before the failure.                 *)
(***************************************************************************)
C5_EmptyScanRaises ==
    (ret.status # "none" /\ Len(ImageFiles) = 0) =>
        /\ ret.status = "RuntimeError"
        /\ ret.manifest = <<>>
        /\ (ret.args.seed = NoSeed => ret.warned)

C5_Witness ==
    /\ ret.status = "RuntimeError"
    /\ ret.files # <<>>
    /\ Len(ImageFiles) = 0
    /\ ret.args.seed = NoSeed
    /\ ret.warned

(***************************************************************************)
(* C6: in every returned manifest, each row of the test split labelled     *)
(* "good" has an empty mask_path, also the rows rebalancing moved there.   *)
(***************************************************************************)
C6_GoodTestRowsHaveNoMask ==
    Returned =>
        \A i \in Rows :
            (Manifest[i].split = "test" /\ Manifest[i].label = "good")
                => Manifest[i].mask_path = ""

C6_Witness ==
    /\ SomeRowMoved
    /\ \E i \in Rows : MovedRow(Manifest[i]) /\ Manifest[i].mask_path = ""

(***************************************************************************)
(* C7: in every returned manifest, each row whose label is not "good" has  *)
(* a non-empty mask_path under <path>/ground_truth/<its label>/ that ends  *)
(* in "_mask.png".                                                         *)
(***************************************************************************)
C7_AnomalousRowsKeepMask ==
    Returned =>
        \A i \in Rows :
            Manifest[i].label # "good" =>
                /\ Manifest[i].mask_path # ""
                /\ StartsWith(Manifest[i].mask_path,
                              PathPrefix \o "/ground_truth/" \o Manifest[i].label \o "/")
                /\ EndsWith(Manifest[i].mask_path, "_mask.png")

C7_Witness ==
    /\ SomeRowMoved
    /\ \E i, j \in Rows :
          /\ Manifest[i].label = "crack" /\ Manifest[i].split = "val"
          /\ Manifest[j].label = "cut" /\ Manifest[j].split = "test"
          /\ Manifest[j].mask_path = PathPrefix \o "/ground_truth/cut/001_mask.png"

(***************************************************************************)
(* C8: in every returned manifest, label_index is 0 or 1, and it is 0      *)
(* exactly for the rows labelled "good", in whatever split they are.       *)
(***************************************************************************)
C8_LabelIndexFollowsLabel ==
    Returned =>
        \A i \in Rows :
            /\ Manifest[i].label_index \in {0, 1}
            /\ Manifest[i].label_index = 0 <=> Manifest[i].label = "good"

C8_Witness ==
    /\ SomeRowMoved
    /\ \E i, j, k \in Rows :
          /\ MovedRow(Manifest[i]) /\ Manifest[i].label_index = 0
          /\ Manifest[j].split = "train" /\ Manifest[j].label_index = 0
          /\ Manifest[k].label # "good" /\ Manifest[k].label_index = 1

(***************************************************************************)
(* C10: every row of a returned manifest carries the label and the         *)
(* image_path of the file it was scanned from, <path>/<split on disk>/     *)
(* <label>/<name>; a train good row moved to the test split keeps its      *)
(* image_path under <path>/train/good/.                                    *)
(***************************************************************************)
C10_ImagePathIsScanLocation ==
    Returned =>
        /\ \A i \in Rows :
              \E k \in DOMAIN SampleFiles :
                  /\ Manifest[i].image_path = PathStr(SampleFiles[k])
                  /\ Manifest[i].label = DiskLabel(SampleFiles[k])
        /\ OnDisk("test", "good") = 0 =>
              \A i \in Rows :
                  (Manifest[i].split = "test" /\ Manifest[i].label = "good")
                      => StartsWith(Manifest[i].image_path, PathPrefix \o "/train/good/")

C10_Witness ==
    /\ SomeRowMoved
    /\ OnDisk("test", "good") = 0
    /\ InManifest("train", "good") >= 1

(***************************************************************************)
(* C1: when the scanned tree has no test/good image and at least one       *)
(* train/good image, the returned manifest has at least one row with       *)
(* split "test" and label "good".                                          *)
(***************************************************************************)
C1_TestSplitHasNormal ==
    (Returned /\ OnDisk("test", "good") = 0 /\ OnDisk("train", "good") >= 1)
        => InManifest("test", "good") >= 1

(***************************************************************************)
(* C3: when the scanned tree has no test/good image, rebalancing moves     *)
(* the split_ratio fraction (its whole part) of the N train/good rows to   *)
(* the test split, the other train/good rows stay in train, the rows with  *)
(* another label keep their split and no row is added or lost; with        *)
(* train/good 1..5, test/crack 1..2, split_ratio 0.4 and seed 0 the test   *)
(* split has 2 normal and 2 anomalous rows and the train split 3 rows.     *)
(* (With create_validation_set the rows that left train are found in the   *)
(* test and val splits together.)                                          *)
(***************************************************************************)
C3_RebalanceMovesFraction ==
    (Returned /\ OnDisk("test", "good") = 0) =>
        LET N == OnDisk("train", "good")
            moved == InManifest("test", "good") + InManifest("val", "good")
            ratio == ret.args.split_ratio
        IN  /\ moved * ratio.den <= N * ratio.num
            /\ N * ratio.num < (moved + 1) * ratio.den
            /\ InManifest("train", "good") = N - moved
            /\ ~ret.args.create_validation_set => InManifest("test", "good") = moved
            /\ \A label \in {"crack", "cut"} :
                  /\ InManifest("train", label) = OnDisk("train", label)
                  /\ InManifest("test", label) + InManifest("val", label)
                        = OnDisk("test", label)
                  /\ ~ret.args.create_validation_set =>
                        InManifest("test", label) = OnDisk("test", label)
            /\ Len(Manifest) = Len(SampleFiles)
            /\ (N = 5 /\ ratio = [num |-> 4, den |-> 10] /\ ret.args.seed = 0
                  /\ ~ret.args.create_validation_set
                  /\ OnDisk("test", "crack") = 2 /\ OnDisk("test", "cut") = 0) =>
                    /\ InManifest("test", "good") = 2
                    /\ InManifest("test", "crack") = 2
                    /\ Cardinality({i \in Rows : Manifest[i].split = "test"}) = 4
                    /\ Cardinality({i \in Rows : Manifest[i].split = "train"}) = 3

C3_Witness ==
    /\ Returned
    /\ ret.args = [split_ratio |-> [num |-> 4, den |-> 10], seed |-> 0,
                   create_validation_set |-> FALSE]
    /\ OnDisk("train", "good") = 5
    /\ OnDisk("test", "good") = 0
    /\ OnDisk("test", "crack") = 2
    /\ OnDisk("test", "cut") = 0
    /\ Cardinality({i \in Rows : MovedRow(Manifest[i])}) = 2

(***************************************************************************)
(* C4: with a seed, a call of make_mvtec_dataset that repeats the          *)
(* arguments of the call before it over the same tree has the same         *)
(* outcome: the same rows in the same order with the same fields.          *)
(***************************************************************************)
C4_SeededCallsAgree ==
    ret.args.seed # NoSeed => rerun # "differs"

C4_Witness ==
    /\ rerun = "same"
    /\ ret.args.seed # NoSeed
    /\ SomeRowMoved
    /\ InManifest("train", "good") >= 1

(***************************************************************************)
(* C9: a prepare_data call that finds no dataset directory downloads,      *)
(* checks the hash, extracts and deletes the archive in this order;        *)
(* extraction happens only after the check passed, and a failed check      *)
(* ends the call with nothing extracted and the archive not deleted.       *)
(***************************************************************************)
PrepareOrder == <<"download", "hash_check", "extract", "unlink">>

C9_ExtractOnlyAfterHashCheck ==
    /\ Len(steps) <= Len(PrepareOrder)
    /\ steps = SubSeq(PrepareOrder, 1, Len(steps))
    /\ pd_pc \in {"checked", "extracted"} => zip = "ok"
    /\ (Len(steps) >= 2 /\ zip = "corrupt") =>
          /\ pd_pc = "failed"
          /\ Len(steps) = 2
          /\ ~dirExists
    /\ (Len(steps) >= 2 /\ pd_pc = "failed") =>
          /\ zip = "corrupt"
          /\ steps = <<"download", "hash_check">>
          /\ ~dirExists

C9_Witness ==
    /\ pd_pc = "done"
    /\ steps = PrepareOrder
    /\ dirExists
    /\ tree = ArchiveTree

====
